---- MODULE Spec2Model ----
(***************************************************************************)
(* bpmn-assistant: the Process Validator and the Creation Orchestrator     *)
(* (bpmn_modeling_service.py), the Edit Proposal Validator and the Edit    *)
(* Orchestrator (bpmn_editor_service.py).                                  *)
(*                                                                         *)
(* Encoding of Python values:                                              *)
(*   - a dict is a record; "k in d" is  k \in DOMAIN d;                    *)
(*   - a list of elements is a sequence;                                   *)
(*   - the value under 'branches' is [list |-> isinstance(v, list),        *)
(*     items |-> the entries], so that a non-list value can be given;      *)
(*   - an exclusive-gateway branch is a record over 'condition', 'path';   *)
(*     a parallel-gateway branch (a list of elements) is [items |-> seq];  *)
(*   - the 'arguments' dict of a proposal is the set of its keys (the      *)
(*     validator and the dispatch read nothing else of it); when the       *)
(*     value under 'arguments' is a JSON array of strings instead, it is   *)
(*     the set of its entries and the record has the field                 *)
(*     arguments_type |-> "list" ("k in args" and len(args) read a list    *)
(*     as they read a dict, **args does not).                              *)
(***************************************************************************)
EXTENDS Integers, Sequences, FiniteSets, TLC

(***************************************************************************)
(* State.  Four components are modelled, each with its own variables; a    *)
(* specification runs one of them and leaves the others as they are.       *)
(***************************************************************************)

VARIABLES
    v_process,  \* the tree handed to _validate_bpmn
    v_result    \* what _validate_bpmn did with it

validator_vars == <<v_process, v_result>>

VARIABLES
    p_response,       \* the response handed to _validate_llm_response
    p_is_first_edit,  \* its argument is_first_edit
    p_result          \* what _validate_llm_response did with it

proposal_vars == <<p_response, p_is_first_edit, p_result>>

VARIABLES
    pc,               \* where the run of edit_bpmn stands
    iteration,        \* 0 in the initial round, then the round of the for loop
    attempts,         \* the local 'attempts' of the retry loop being run
    response,         \* the response / edit_proposal in hand
    updated_process,  \* the current tree
    error_message,    \* str(e) of the last exception caught
    prompt,           \* the prompt of the last facade call
    error,            \* the exception edit_bpmn ended with
    result,           \* the tree edit_bpmn returned
    calls,            \* facade calls made
    ip_validations,   \* validations made by _get_initial_edit_proposal
    round_applies,    \* _update_process calls made in the round under way
    last_applied,     \* the tree the last successful edit function returned
    only_invalid,     \* every facade call so far returned an ungrammatical dict
    only_structural,  \* every facade call so far returned a valid call without
                      \* stop, and every edit function call so far raised
                      \* ProcessException
    validated         \* the response in hand was accepted by
                      \* _validate_llm_response

editor_vars ==
    <<pc, iteration, attempts, response, updated_process, error_message,
      prompt, error, result, calls, ip_validations, round_applies,
      last_applied, only_invalid, only_structural, validated>>

VARIABLES
    c_pc,           \* where the run of create_bpmn stands
    c_max_retries,  \* the argument max_retries
    c_attempts,     \* the local 'attempts'
    c_prompt,       \* the local 'prompt': the exception it quotes, if any
    c_response,     \* the last outcome of llm_facade.call
    c_result,       \* the process create_bpmn returned
    c_error,        \* the exception create_bpmn ended with
    c_calls,        \* facade calls made
    c_sent          \* the prompt of the last facade call

create_vars ==
    <<c_pc, c_max_retries, c_attempts, c_prompt, c_response, c_result,
      c_error, c_calls, c_sent>>

vars == <<validator_vars, proposal_vars, editor_vars, create_vars>>

(***************************************************************************)
(* Part 1.  Process Validator                                              *)
(***************************************************************************)

\* Nesting depth of the gateways in the trees handed to the validator.
MaxDepth == 3

\* [e.value for e in BPMNElementType]; the enum is not among the sources,
\* its values are the element variants of the data model.
supported_elements ==
    {"task", "userTask", "serviceTask", "exclusiveGateway", "parallelGateway"}

TaskTypes == {"task", "userTask", "serviceTask"}

\* The outcome of a validation: no exception, or the Exception raised, with
\* the message and the value the message quotes.
NoError == [ok |-> TRUE, msg |-> "ok", subject |-> [none |-> TRUE]]

Raise(msg, subject) == [ok |-> FALSE, msg |-> msg, subject |-> subject]

IsListValue(v) == v.list

\* The first index of seq whose entry satisfies Bad, 0 when there is none.
FirstIndex(seq, Bad(_)) ==
    LET hits == {i \in 1..Len(seq) : Bad(seq[i])}
    IN IF hits = {} THEN 0 ELSE CHOOSE i \in hits : \A j \in hits : i <= j

InvalidExclusiveBranch(branch) ==
    "condition" \notin DOMAIN branch \/ "path" \notin DOMAIN branch

validate_element(element) ==
    IF "id" \notin DOMAIN element
    THEN Raise("Element is missing an ID", element)
    ELSE IF "type" \notin DOMAIN element
    THEN Raise("Element is missing a type", element)
    ELSE IF element.type \notin supported_elements
    THEN Raise("Unsupported element type", [type |-> element.type])
    ELSE IF element.type \in TaskTypes
    THEN IF "label" \notin DOMAIN element
         THEN Raise("Task element is missing a label", element)
         ELSE NoError
    ELSE IF element.type = "exclusiveGateway"
    THEN IF "label" \notin DOMAIN element
         THEN Raise("Exclusive gateway is missing a label", element)
         ELSE IF "branches" \notin DOMAIN element
                 \/ ~IsListValue(element.branches)
         THEN Raise("Exclusive gateway is missing or has invalid 'branches'",
                    element)
         ELSE LET i == FirstIndex(element.branches.items,
                                  InvalidExclusiveBranch)
              IN IF i # 0
                 THEN Raise("Invalid branch in exclusive gateway",
                            element.branches.items[i])
                 ELSE NoError
    ELSE IF element.type = "parallelGateway"
    THEN IF "branches" \notin DOMAIN element
            \/ ~IsListValue(element.branches)
         THEN Raise("Parallel gateway is missing or has invalid 'branches'",
                    element)
         ELSE NoError
    ELSE NoError

RECURSIVE validate_bpmn(_)
RECURSIVE ValidateBranches(_, _)

\* A mutant: only the first branch of a gateway is descended into.
ValidateBranches_first_only(branches, exclusive) ==
    IF branches = <<>>
    THEN NoError
    ELSE validate_bpmn(IF exclusive THEN Head(branches).path
                       ELSE Head(branches).items)

\* The loop "for branch in element['branches']" of _validate_bpmn, over the
\* branches not yet visited: the first exception ends it.
ValidateBranches(branches, exclusive) ==
    IF branches = <<>>
    THEN NoError
    ELSE LET body == IF exclusive THEN Head(branches).path
                     ELSE Head(branches).items
             r == validate_bpmn(body)
         IN IF ~r.ok THEN r ELSE ValidateBranches(Tail(branches), exclusive)

\* A mutant: the elements of a sequence are all validated before any branch
\* is descended into.
validate_bpmn_siblings_first(process) ==
    LET i == FirstIndex(process, LAMBDA e : ~validate_element(e).ok)
        RECURSIVE Down(_)
        Down(p) ==
            IF p = <<>> THEN NoError
            ELSE LET element == Head(p)
                     rb == IF element.type = "exclusiveGateway"
                           THEN ValidateBranches(element.branches.items, TRUE)
                           ELSE IF element.type = "parallelGateway"
                           THEN ValidateBranches(element.branches.items, FALSE)
                           ELSE NoError
                 IN IF ~rb.ok THEN rb ELSE Down(Tail(p))
    IN IF i # 0 THEN validate_element(process[i]) ELSE Down(process)

validate_bpmn(process) ==
    IF process = <<>>
    THEN NoError
    ELSE LET element == Head(process)
             r == validate_element(element)
         IN IF ~r.ok
            THEN r
            ELSE LET rb == IF element.type = "exclusiveGateway"
                           THEN ValidateBranches(element.branches.items, TRUE)
                           ELSE IF element.type = "parallelGateway"
                           THEN ValidateBranches(element.branches.items, FALSE)
                           ELSE NoError
                 IN IF ~rb.ok THEN rb ELSE validate_bpmn(Tail(process))

(***************************************************************************)
(* The trees handed to the validator.                                      *)
(***************************************************************************)

OkTaskA == [id |-> "A", type |-> "task", label |-> "do A"]
OkTaskB == [id |-> "B", type |-> "userTask", label |-> "do B"]

BadLeaves ==
    { [type |-> "task", label |-> "no id"],
      [id |-> "C", label |-> "no type"],
      [id |-> "C", type |-> "serviceTask"],
      [id |-> "C", type |-> "startEvent", label |-> "unsupported"] }

Leaves == {OkTaskA, OkTaskB} \cup BadLeaves

ListOf(items) == [list |-> TRUE, items |-> items]
NotAList == [list |-> FALSE, items |-> <<>>]

XBranch(path) == [condition |-> "yes", path |-> path]
PBranch(body) == [items |-> body]

XGateway(items) ==
    [id |-> "X", type |-> "exclusiveGateway", label |-> "which?",
     branches |-> ListOf(items)]
PGateway(items) ==
    [id |-> "P", type |-> "parallelGateway", branches |-> ListOf(items)]

\* Gateways that break a rule of their own.
BadGateways ==
    { [id |-> "X", type |-> "exclusiveGateway", branches |-> ListOf(<<>>)],
      [id |-> "X", type |-> "exclusiveGateway", label |-> "which?"],
      [id |-> "X", type |-> "exclusiveGateway", label |-> "which?",
       branches |-> NotAList],
      XGateway(<<XBranch(<<OkTaskA>>), [path |-> <<OkTaskB>>]>>),
      XGateway(<<[condition |-> "yes"]>>),
      [id |-> "P", type |-> "parallelGateway"],
      [id |-> "P", type |-> "parallelGateway", branches |-> NotAList] }

Bodies0 ==
    {<<>>} \cup {<<l>> : l \in Leaves} \cup {<<OkTaskA, l>> : l \in BadLeaves}

GatewaysOver(bodies) ==
    {XGateway(<<XBranch(b)>>) : b \in bodies}
    \cup {XGateway(<<XBranch(b), XBranch(<<[id |-> "C", label |-> "no type"]>>)>>)
            : b \in bodies}
    \cup {PGateway(<<PBranch(<<OkTaskB>>), PBranch(b)>>) : b \in bodies}
    \cup BadGateways

\* The sequences of elements nested at most d gateways deep.
RECURSIVE Bodies(_)
Bodies(d) ==
    IF d = 0
    THEN Bodies0
    ELSE LET gs == GatewaysOver(Bodies(d - 1))
         IN Bodies0
            \cup {<<g, [id |-> "C", type |-> "serviceTask"]>> : g \in gs}
            \cup {<<OkTaskA, g>> : g \in gs}

Pending == [ok |-> FALSE, msg |-> "pending", subject |-> [none |-> TRUE]]

\* A task whose label is the empty string.
EmptyLabelTask == [id |-> "E", type |-> "task", label |-> ""]

ValidatorInit ==
    /\ v_process \in Bodies(MaxDepth) \cup {<<EmptyLabelTask>>}
    /\ v_result = Pending

\* self._validate_bpmn(process)
ValidateProcess ==
    /\ v_result = Pending
    /\ v_result' = validate_bpmn(v_process)
    /\ UNCHANGED <<v_process, proposal_vars, editor_vars, create_vars>>

(***************************************************************************)
(* Part 2.  Edit Proposal Validator                                        *)
(***************************************************************************)

Verbs ==
    {"delete_element", "redirect_branch", "add_element", "move_element",
     "update_element"}

\* The argument keys of the five verbs, and one key no verb takes.
ArgKeys ==
    {"element_id", "branch_condition", "next_id", "element", "before_id",
     "after_id", "new_element", "foo"}

Returned == [kind |-> "ok", msg |-> ""]
ValueError(msg) == [kind |-> "ValueError", msg |-> msg]
KeyError(key) == [kind |-> "KeyError", msg |-> key]

\* A mutant: the len(args) checks are left out.
validate_arguments_no_len(function_to_call, args) ==
    IF function_to_call = "delete_element"
    THEN IF "element_id" \notin args
         THEN ValueError("Arguments should contain 'element_id' key.")
         ELSE Returned
    ELSE IF function_to_call = "redirect_branch"
    THEN IF "branch_condition" \notin args \/ "next_id" \notin args
         THEN ValueError("Arguments should contain 'branch_condition' and 'next_id' keys.")
         ELSE Returned
    ELSE IF function_to_call \in {"add_element", "move_element"}
    THEN LET key == IF function_to_call = "add_element"
                    THEN "element" ELSE "element_id"
         IN IF key \notin args
            THEN ValueError("Arguments should contain the key.")
            ELSE IF "before_id" \in args /\ "after_id" \in args
            THEN ValueError("Only one of 'before_id' and 'after_id' should be provided.")
            ELSE IF "before_id" \notin args /\ "after_id" \notin args
            THEN ValueError("Either 'before_id' or 'after_id' should be provided.")
            ELSE Returned
    ELSE IF function_to_call = "update_element"
    THEN IF "new_element" \notin args
         THEN ValueError("Arguments should contain 'new_element' key.")
         ELSE Returned
    ELSE ValueError("Function not found.")

\* The if/elif chain over function_to_call of _validate_llm_response.
validate_arguments(function_to_call, args) ==
    IF function_to_call = "delete_element"
    THEN IF "element_id" \notin args
         THEN ValueError("Arguments should contain 'element_id' key.")
         ELSE IF Cardinality(args) > 1
         THEN ValueError("Arguments should contain only 'element_id' key.")
         ELSE Returned
    ELSE IF function_to_call = "redirect_branch"
    THEN IF "branch_condition" \notin args \/ "next_id" \notin args
         THEN ValueError("Arguments should contain 'branch_condition' and 'next_id' keys.")
         ELSE IF Cardinality(args) > 2
         THEN ValueError("Arguments should contain only 'branch_condition' and 'next_id' keys.")
         ELSE Returned
    ELSE IF function_to_call = "add_element"
    THEN IF "element" \notin args
         THEN ValueError("Arguments should contain 'element' key.")
         ELSE IF "before_id" \in args /\ "after_id" \in args
         THEN ValueError("Only one of 'before_id' and 'after_id' should be provided.")
         ELSE IF "before_id" \notin args /\ "after_id" \notin args
         THEN ValueError("Either 'before_id' or 'after_id' should be provided.")
         ELSE IF Cardinality(args) > 2
         THEN ValueError("Arguments should contain only 'element' and either 'before_id' or 'after_id' keys.")
         ELSE Returned
    ELSE IF function_to_call = "move_element"
    THEN IF "element_id" \notin args
         THEN ValueError("Arguments should contain 'element_id' key.")
         ELSE IF "before_id" \in args /\ "after_id" \in args
         THEN ValueError("Only one of 'before_id' and 'after_id' should be provided.")
         ELSE IF "before_id" \notin args /\ "after_id" \notin args
         THEN ValueError("Either 'before_id' or 'after_id' should be provided.")
         ELSE IF Cardinality(args) > 2
         THEN ValueError("Arguments should contain only 'element_id' and either 'before_id' or 'after_id' keys.")
         ELSE Returned
    ELSE IF function_to_call = "update_element"
    THEN IF "new_element" \notin args
         THEN ValueError("Arguments should contain 'new_element' key.")
         ELSE IF Cardinality(args) > 1
         THEN ValueError("Arguments should contain only 'new_element' key.")
         ELSE Returned
    ELSE ValueError("Function not found.")

\* A mutant: a response holding 'stop' is refused where stop is not accepted.
validate_llm_response_stop_refused(resp, is_first_edit) ==
    IF ~is_first_edit /\ "stop" \in DOMAIN resp
    THEN Returned
    ELSE IF "function" \notin DOMAIN resp
            \/ "arguments" \notin DOMAIN resp
            \/ "stop" \in DOMAIN resp
    THEN ValueError("Function call should contain 'function' and 'arguments' keys, or a 'stop' key.")
    ELSE validate_arguments(resp.function, resp.arguments)

\* The outcome of _validate_llm_response: it returns True, or raises the
\* ValueError of a rule, or the KeyError of a subscript on a missing key.
validate_llm_response(resp, is_first_edit) ==
    IF ~is_first_edit /\ "stop" \in DOMAIN resp
    THEN Returned
    ELSE IF ("function" \notin DOMAIN resp
             \/ "arguments" \notin DOMAIN resp)
            /\ "stop" \notin DOMAIN resp
    THEN ValueError("Function call should contain 'function' and 'arguments' keys, or a 'stop' key.")
    ELSE IF "function" \notin DOMAIN resp
    THEN KeyError("function")
    ELSE IF "arguments" \notin DOMAIN resp
    THEN KeyError("arguments")
    ELSE validate_arguments(resp.function, resp.arguments)

\* The responses handed to the proposal validator: every combination of the
\* keys 'function', 'arguments' and 'stop', of a verb (one unknown) and of a
\* set of argument keys; the calls whose 'arguments' is a list of those
\* keys; a dict with none of the three keys.
VerbNames == Verbs \cup {"rename_element"}

AllProposals ==
    {[function |-> f, arguments |-> a] : f \in VerbNames, a \in SUBSET ArgKeys}
    \cup {[function |-> f, arguments |-> a, stop |-> TRUE]
            : f \in VerbNames, a \in SUBSET ArgKeys}
    \cup {[function |-> f, arguments |-> a, arguments_type |-> "list"]
            : f \in VerbNames, a \in SUBSET ArgKeys}
    \cup {[function |-> f] : f \in VerbNames}
    \cup {[function |-> f, stop |-> TRUE] : f \in VerbNames}
    \cup {[arguments |-> a] : a \in SUBSET ArgKeys}
    \cup {[arguments |-> a, stop |-> TRUE] : a \in SUBSET ArgKeys}
    \cup {[stop |-> TRUE], [text |-> "no proposal"]}

NotValidated == [kind |-> "pending", msg |-> ""]

ProposalInit ==
    /\ p_response \in AllProposals
    /\ p_is_first_edit \in BOOLEAN
    /\ p_result = NotValidated

\* self._validate_llm_response(response, is_first_edit)
ValidateProposal ==
    /\ p_result = NotValidated
    /\ p_result' = validate_llm_response(p_response, p_is_first_edit)
    /\ UNCHANGED <<p_response, p_is_first_edit>>
    /\ UNCHANGED <<validator_vars, editor_vars, create_vars>>

(***************************************************************************)
(* Part 3.  Edit Orchestrator (BpmnEditorService)                          *)
(*                                                                         *)
(* The five edit functions are not among the sources.  A process tree is   *)
(* represented by the sequence of the edits applied to the tree the        *)
(* service was constructed with; whether an edit function finds the        *)
(* proposal applicable to the tree or raises ProcessException is chosen    *)
(* at the call.                                                            *)
(***************************************************************************)

\* A mutant: the retry loops run one attempt more.
max_retries_one_more == 3 + 1

\* max_retries: int = 3 of the three retry loops
max_retries == 3

\* max_num_of_iterations: int = 7
max_num_of_iterations == 7

\* Ceiling of the history counters (facade calls, validations, applies).
MaxCalls == 60

\* self.process as given to the constructor.
OriginalProcess == <<>>

ValidDelete == [function |-> "delete_element", arguments |-> {"element_id"}]
StopOnly == [stop |-> TRUE]

\* What llm_facade.call returns in this model.
EditReplies ==
    { ValidDelete,
      StopOnly,
      [function |-> "move_element", arguments |-> {"element_id", "after_id"},
       stop |-> TRUE],
      [function |-> "add_element",
       arguments |-> {"element", "before_id", "after_id"}],
      [text |-> "no proposal"] }

NoResponse == [none |-> TRUE]

FacadeValueError == "ValueError (facade)"
FacadeException == "Exception (facade)"

\* A facade call returns a dict or raises: the provider raises ValueError
\* (empty or non-dict output) or Exception (output that is not JSON).
FacadeOutcomes ==
    {[raised |-> "", value |-> r] : r \in EditReplies}
    \cup {[raised |-> FacadeValueError, value |-> NoResponse],
          [raised |-> FacadeException, value |-> NoResponse]}

MaxRetriesProposal == "Max number of retries reached."
MaxRetriesApply == "Max number of retries reached. Process not fully edited."
MaxIterations == "Max number of iterations reached. Process not fully edited."

\* The keyword arguments an edit function takes (its signature is not among
\* the sources: the key sets are those of the operation grammar).
AcceptsKeywords(function_to_call, args) ==
    IF function_to_call = "delete_element" THEN args = {"element_id"}
    ELSE IF function_to_call = "redirect_branch"
    THEN args = {"branch_condition", "next_id"}
    ELSE IF function_to_call = "add_element"
    THEN args \in {{"element", "before_id"}, {"element", "after_id"}}
    ELSE IF function_to_call = "move_element"
    THEN args \in {{"element_id", "before_id"}, {"element_id", "after_id"}}
    ELSE args = {"new_element"}

Updated(process) == [kind |-> "ok", msg |-> "", process |-> process]
Raised(kind, msg, process) == [kind |-> kind, msg |-> msg, process |-> process]

\* edit_functions[function_to_call](process, **args): a freshly built tree,
\* or ProcessException when the edit is not applicable to the tree.
EditFunction(process, function_to_call, args, applicable) ==
    IF ~AcceptsKeywords(function_to_call, args)
    THEN Raised("TypeError", "unexpected keyword argument", process)
    ELSE IF applicable
    THEN Updated(Append(process, function_to_call))
    ELSE Raised("ProcessException", "structural error", process)

\* isinstance(edit_proposal["arguments"], dict): **args takes a mapping.
IsMapping(edit_proposal) == "arguments_type" \notin DOMAIN edit_proposal

\* A mutant: the edit function edits the list it was handed in place and
\* then raises.
update_process_partial(process, edit_proposal, applicable) ==
    IF "function" \notin DOMAIN edit_proposal
    THEN Raised("KeyError", "function", process)
    ELSE IF "arguments" \notin DOMAIN edit_proposal
    THEN Raised("KeyError", "arguments", process)
    ELSE IF edit_proposal.function \notin Verbs
    THEN Raised("KeyError", edit_proposal.function, process)
    ELSE IF ~IsMapping(edit_proposal)
    THEN Raised("TypeError", "argument after ** must be a mapping", process)
    ELSE IF ~AcceptsKeywords(edit_proposal.function, edit_proposal.arguments)
    THEN Raised("TypeError", "unexpected keyword argument", process)
    ELSE IF applicable
    THEN Updated(Append(process, edit_proposal.function))
    ELSE Raised("ProcessException", "structural error",
                Append(process, "partial"))

\* _update_process
update_process(process, edit_proposal, applicable) ==
    IF "function" \notin DOMAIN edit_proposal
    THEN Raised("KeyError", "function", process)
    ELSE IF "arguments" \notin DOMAIN edit_proposal
    THEN Raised("KeyError", "arguments", process)
    ELSE IF edit_proposal.function \notin Verbs
    THEN Raised("KeyError", edit_proposal.function, process)
    ELSE IF ~IsMapping(edit_proposal)
    THEN Raised("TypeError", "argument after ** must be a mapping", process)
    ELSE EditFunction(process, edit_proposal.function,
                      edit_proposal.arguments, applicable)

NoPrompt == [template |-> "", process |-> <<>>, change_request |-> FALSE,
             error |-> ""]

\* f"Editing error: {error_message}. Please provide a new edit proposal."
EditingErrorPrompt(msg) ==
    [template |-> "Editing error", process |-> <<>>, change_request |-> FALSE,
     error |-> msg]

\* A mutant: the re-prompt after a structural error leaves the change
\* request out.
TryAgainPrompt_no_change_request(msg) ==
    [template |-> "Error. Try again. Change request", process |-> <<>>,
     change_request |-> FALSE, error |-> msg]

\* f"Error: {error_message}. Try again. Change request: {self.change_request}"
TryAgainPrompt(msg) ==
    [template |-> "Error. Try again. Change request", process |-> <<>>,
     change_request |-> TRUE, error |-> msg]

EditorInit ==
    /\ pc = "start"
    /\ iteration = 0
    /\ attempts = 0
    /\ response = NoResponse
    /\ updated_process = OriginalProcess
    /\ error_message = ""
    /\ prompt = NoPrompt
    /\ error = ""
    /\ result = <<>>
    /\ calls = 0
    /\ ip_validations = 0
    /\ round_applies = 0
    /\ last_applied = OriginalProcess
    /\ only_invalid = TRUE
    /\ only_structural = TRUE
    /\ validated = FALSE

\* A history counter, one more; it stays at its ceiling.
Counted(n) == IF n < MaxCalls THEN n + 1 ELSE MaxCalls

\* A reply that _validate_llm_response(response, is_first_edit=True) does
\* not accept: it is no well-formed call (a stop-only reply is one such).
Ungrammatical(o) ==
    o.raised = "" /\ validate_llm_response(o.value, TRUE).kind # "ok"

\* A reply that is a well-formed call and holds no stop.
ValidCall(o) ==
    /\ o.raised = ""
    /\ "stop" \notin DOMAIN o.value
    /\ validate_llm_response(o.value, TRUE).kind = "ok"

\* self.llm_facade.call(p) with outcome o: the bookkeeping of a call.
Called(p, o) ==
    /\ prompt' = p
    /\ calls' = Counted(calls)
    /\ only_invalid' = (only_invalid /\ Ungrammatical(o))
    /\ only_structural' = (only_structural /\ ValidCall(o))
    /\ validated' = FALSE

\* attempts += 1
NextAttempt(n) == n + 1

\* edit_bpmn raises exc.
Fail(exc) ==
    /\ pc' = "failed"
    /\ error' = exc

\* _attempt_process_update_with_retries is entered with the proposal in hand;
\* its locals are fresh.
EnterApply ==
    /\ pc' = "ap_try"
    /\ attempts' = 0
    /\ error_message' = ""
    /\ round_applies' = 0

\* _attempt_process_update_with_retries returned tree (its locals are gone):
\* the for loop of _apply_intermediate_edits starts or goes on, or is
\* exhausted.
\* A mutant: the for loop runs one round more (range(max + 1)).
RoundDone_one_more(tree, applies) ==
    /\ updated_process' = tree
    /\ error_message' = ""
    /\ IF iteration < max_num_of_iterations + 1
       THEN /\ iteration' = iteration + 1
            /\ attempts' = 0
            /\ round_applies' = 0
            /\ pc' = "im_call"
            /\ UNCHANGED error
       ELSE /\ Fail(MaxIterations)
            /\ round_applies' = applies
            /\ UNCHANGED <<iteration, attempts>>

\* A mutant: the tree the apply step returned is not assigned to
\* updated_process.
RoundDone_stale(tree, applies) ==
    /\ updated_process' = updated_process
    /\ error_message' = ""
    /\ IF iteration < max_num_of_iterations
       THEN /\ iteration' = iteration + 1
            /\ attempts' = 0
            /\ round_applies' = 0
            /\ pc' = "im_call"
            /\ UNCHANGED error
       ELSE /\ Fail(MaxIterations)
            /\ round_applies' = applies
            /\ UNCHANGED <<iteration, attempts>>

RoundDone(tree, applies) ==
    /\ updated_process' = tree
    /\ error_message' = ""
    /\ IF iteration < max_num_of_iterations
       THEN /\ iteration' = iteration + 1
            /\ attempts' = 0
            /\ round_applies' = 0
            /\ pc' = "im_call"
            /\ UNCHANGED error
       ELSE /\ Fail(MaxIterations)
            /\ round_applies' = applies
            /\ UNCHANGED <<iteration, attempts>>

\* _get_initial_edit_proposal, lines 108-117: the first facade call.
InitialCall ==
    /\ UNCHANGED <<validator_vars, proposal_vars, create_vars>>
    /\ pc = "start"
    /\ \E o \in FacadeOutcomes :
        /\ Called([template |-> "edit_bpmn.txt", process |-> OriginalProcess,
                   change_request |-> TRUE, error |-> ""], o)
        /\ IF o.raised # ""
           THEN /\ Fail(o.raised)
                /\ UNCHANGED <<response, attempts>>
           ELSE /\ response' = o.value
                /\ attempts' = 0
                /\ pc' = "ip_validate"
                /\ UNCHANGED error
    /\ UNCHANGED <<iteration, updated_process, error_message, result,
                   ip_validations, round_applies, last_applied>>

\* A mutant: the loop of _get_initial_edit_proposal does not count a
\* refused response (attempts += 1 is missing).
InitialValidate_no_count ==
    /\ UNCHANGED <<validator_vars, proposal_vars, create_vars>>
    /\ pc = "ip_validate"
    /\ ip_validations' = Counted(ip_validations)
    /\ validated' = (validate_llm_response(response, TRUE).kind = "ok")
    /\ LET r == validate_llm_response(response, TRUE)
       IN IF r.kind = "ok"
          THEN /\ EnterApply
               /\ UNCHANGED error
          ELSE IF r.kind = "ValueError"
          THEN /\ attempts' = attempts
               /\ error_message' = r.msg
               /\ pc' = "ip_reprompt"
               /\ UNCHANGED <<error, round_applies>>
          ELSE /\ Fail(r.kind)
               /\ attempts' = NextAttempt(attempts)
               /\ UNCHANGED <<error_message, round_applies>>
    /\ UNCHANGED <<iteration, response, updated_process, prompt, result, calls,
                   last_applied, only_invalid, only_structural>>

\* _get_initial_edit_proposal, lines 119-129: one validation.
InitialValidate ==
    /\ UNCHANGED <<validator_vars, proposal_vars, create_vars>>
    /\ pc = "ip_validate"
    /\ ip_validations' = Counted(ip_validations)
    /\ validated' = (validate_llm_response(response, TRUE).kind = "ok")
    /\ LET r == validate_llm_response(response, TRUE)
       IN IF r.kind = "ok"
          THEN /\ EnterApply
               /\ UNCHANGED error
          ELSE IF r.kind = "ValueError"
          THEN /\ attempts' = NextAttempt(attempts)
               /\ error_message' = r.msg
               /\ pc' = "ip_reprompt"
               /\ UNCHANGED <<error, round_applies>>
          ELSE /\ Fail(r.kind)
               /\ attempts' = NextAttempt(attempts)
               /\ UNCHANGED <<error_message, round_applies>>
    /\ UNCHANGED <<iteration, response, updated_process, prompt, result, calls,
                   last_applied, only_invalid, only_structural>>

\* _get_initial_edit_proposal, lines 131-136: the re-prompt, then the loop
\* test.
InitialReprompt ==
    /\ UNCHANGED <<validator_vars, proposal_vars, create_vars>>
    /\ pc = "ip_reprompt"
    /\ \E o \in FacadeOutcomes :
        /\ Called(EditingErrorPrompt(error_message), o)
        /\ IF o.raised # ""
           THEN /\ Fail(o.raised)
                /\ UNCHANGED response
           ELSE /\ response' = o.value
                /\ IF attempts < max_retries
                   THEN pc' = "ip_validate" /\ UNCHANGED error
                   ELSE Fail(MaxRetriesProposal)
    /\ UNCHANGED <<iteration, attempts, updated_process, error_message, result,
                   ip_validations, round_applies, last_applied>>

\* _attempt_process_update_with_retries, lines 62-72: one _update_process.
\* The edit function is handed the list object 'process' itself: when it
\* raises, the tree is what the function left in that object.
ApplyEdit ==
    /\ UNCHANGED <<validator_vars, proposal_vars, create_vars>>
    /\ pc = "ap_try"
    /\ \E applicable \in BOOLEAN :
        LET r == update_process(updated_process, response, applicable)
        IN IF r.kind = "ok"
           THEN /\ RoundDone(r.process, Counted(round_applies))
                /\ last_applied' = r.process
                /\ only_structural' = FALSE
           ELSE IF r.kind = "ProcessException"
           THEN /\ attempts' = NextAttempt(attempts)
                /\ round_applies' = Counted(round_applies)
                /\ error_message' = r.msg
                /\ pc' = "ap_reprompt"
                /\ updated_process' = r.process
                /\ UNCHANGED <<iteration, error, last_applied,
                               only_structural>>
           ELSE /\ Fail(r.kind)
                /\ attempts' = NextAttempt(attempts)
                /\ round_applies' = Counted(round_applies)
                /\ only_structural' = FALSE
                /\ updated_process' = r.process
                /\ UNCHANGED <<iteration, error_message, last_applied>>
    /\ UNCHANGED <<response, prompt, result, calls, ip_validations,
                   only_invalid, validated>>

\* A mutant: a stop in reply to the re-prompt ends the run; edit_bpmn
\* returns the tree.
ApplyReprompt_stop_ends ==
    /\ UNCHANGED <<validator_vars, proposal_vars, create_vars>>
    /\ pc = "ap_reprompt"
    /\ \E o \in FacadeOutcomes :
        /\ Called(TryAgainPrompt(error_message), o)
        /\ IF o.raised # ""
           THEN /\ Fail(o.raised)
                /\ UNCHANGED <<response, iteration, attempts, updated_process,
                               error_message, round_applies, result>>
           ELSE /\ response' = o.value
                /\ IF "stop" \in DOMAIN o.value
                   THEN /\ pc' = "stopped"
                        /\ result' = updated_process
                        /\ UNCHANGED <<iteration, attempts, updated_process,
                                       error, error_message, round_applies>>
                   ELSE IF attempts < max_retries
                   THEN /\ pc' = "ap_try"
                        /\ UNCHANGED <<iteration, attempts, updated_process,
                                       error, error_message, round_applies,
                                       result>>
                   ELSE /\ Fail(MaxRetriesApply)
                        /\ UNCHANGED <<iteration, attempts, updated_process,
                                       error_message, round_applies, result>>
    /\ UNCHANGED <<ip_validations, last_applied>>

\* _attempt_process_update_with_retries, lines 74-82: the re-prompt, the
\* test for stop, then the loop test.
ApplyReprompt ==
    /\ UNCHANGED <<validator_vars, proposal_vars, create_vars>>
    /\ pc = "ap_reprompt"
    /\ \E o \in FacadeOutcomes :
        /\ Called(TryAgainPrompt(error_message), o)
        /\ IF o.raised # ""
           THEN /\ Fail(o.raised)
                /\ UNCHANGED <<response, iteration, attempts, updated_process,
                               error_message, round_applies>>
           ELSE /\ response' = o.value
                /\ IF "stop" \in DOMAIN o.value
                   THEN RoundDone(updated_process, round_applies)
                   ELSE IF attempts < max_retries
                   THEN /\ pc' = "ap_try"
                        /\ UNCHANGED <<iteration, attempts, updated_process,
                                       error, error_message, round_applies>>
                   ELSE /\ Fail(MaxRetriesApply)
                        /\ UNCHANGED <<iteration, attempts, updated_process,
                                       error_message, round_applies>>
    /\ UNCHANGED <<result, ip_validations, last_applied>>

\* _get_intermediate_edit_proposal, lines 151-165: the prompt of the attempt
\* and the facade call; a ValueError of the call is caught at line 169.
IntermediateCall ==
    /\ UNCHANGED <<validator_vars, proposal_vars, create_vars>>
    /\ pc = "im_call"
    /\ attempts' = NextAttempt(attempts)
    /\ \E o \in FacadeOutcomes :
        /\ Called(IF attempts' = 1
                  THEN [template |-> "edit_bpmn_intermediate_step.txt",
                        process |-> updated_process,
                        change_request |-> FALSE, error |-> ""]
                  ELSE EditingErrorPrompt(error_message), o)
        /\ IF o.raised = ""
           THEN /\ response' = o.value
                /\ pc' = "im_validate"
                /\ UNCHANGED <<error, error_message>>
           ELSE IF o.raised = FacadeValueError
           THEN /\ error_message' = FacadeValueError
                /\ IF attempts' < max_retries
                   THEN pc' = "im_call" /\ UNCHANGED error
                   ELSE Fail(MaxRetriesProposal)
                /\ UNCHANGED response
           ELSE /\ Fail(o.raised)
                /\ UNCHANGED <<response, error_message>>
    /\ UNCHANGED <<iteration, updated_process, result, ip_validations,
                   round_applies, last_applied>>

\* _get_intermediate_edit_proposal, lines 167-175, and on its return lines
\* 46-53 of _apply_intermediate_edits.
IntermediateValidate ==
    /\ UNCHANGED <<validator_vars, proposal_vars, create_vars>>
    /\ pc = "im_validate"
    /\ validated' = (validate_llm_response(response, FALSE).kind = "ok")
    /\ LET r == validate_llm_response(response, FALSE)
       IN IF r.kind = "ok"
          THEN IF "stop" \in DOMAIN response
               THEN /\ pc' = "stopped"
                    /\ result' = updated_process
                    /\ UNCHANGED <<attempts, round_applies, error_message,
                                   error>>
               ELSE /\ EnterApply
                    /\ UNCHANGED <<result, error>>
          ELSE IF r.kind = "ValueError"
          THEN /\ error_message' = r.msg
               /\ IF attempts < max_retries
                  THEN pc' = "im_call" /\ UNCHANGED error
                  ELSE Fail(MaxRetriesProposal)
               /\ UNCHANGED <<attempts, round_applies, result>>
          ELSE /\ Fail(r.kind)
               /\ UNCHANGED <<attempts, round_applies, result, error_message>>
    /\ UNCHANGED <<iteration, response, updated_process, prompt, calls,
                   ip_validations, last_applied, only_invalid, only_structural>>

(***************************************************************************)
(* Part 4.  Creation Orchestrator (BpmnModelingService.create_bpmn)        *)
(***************************************************************************)

\* The largest max_retries create_bpmn is called with.
MaxRetriesArg == 3

NestedInvalid ==
    <<OkTaskA,
      XGateway(<<XBranch(<<PGateway(<<PBranch(<<OkTaskB>>),
                                      PBranch(<<[id |-> "C",
                                                 type |-> "serviceTask"]>>)>>)>>)>>)>>

NestedValid ==
    <<OkTaskA, PGateway(<<PBranch(<<OkTaskB>>), PBranch(<<>>)>>)>>

\* The trees the facade answers with.
CreateTrees ==
    { <<OkTaskA>>, <<OkTaskA, OkTaskB>>, NestedValid,
      <<[id |-> "C", label |-> "no type"]>>, NestedInvalid }

\* What llm_facade.call returns to create_bpmn: None, a text, a dict with
\* or without 'process'; or the call raises.
CreateOutcomes ==
    {[raised |-> "", shape |-> "dict", value |-> [process |-> t]]
        : t \in CreateTrees}
    \cup {[raised |-> "", shape |-> "dict", value |-> [text |-> "no process"]],
          [raised |-> "", shape |-> "None", value |-> NoResponse],
          [raised |-> "", shape |-> "str", value |-> NoResponse],
          [raised |-> FacadeException, shape |-> "", value |-> NoResponse]}

NoOutcome == [raised |-> "", shape |-> "", value |-> NoResponse]

MaxRetriesCreate ==
    "Max number of retries reached. Could not create the BPMN process."

CreateInit ==
    /\ c_pc = "loop"
    /\ c_max_retries \in 0..MaxRetriesArg
    /\ c_attempts = 0
    /\ c_prompt = [template |-> "create_bpmn.txt", error |-> NoError]
    /\ c_response = NoOutcome
    /\ c_result = <<>>
    /\ c_error = ""
    /\ c_calls = 0
    /\ c_sent = [template |-> "", error |-> NoError]

\* Lines 46-47: process = response["process"]; self._validate_bpmn(process).
TryProcess(o) ==
    IF o.shape # "dict"
    THEN Raise("TypeError", [none |-> TRUE])
    ELSE IF "process" \notin DOMAIN o.value
    THEN Raise("KeyError", [key |-> "process"])
    ELSE validate_bpmn(o.value.process)

\* A mutant: the process of the last attempt is returned unvalidated.
CreateReturns_last_unchecked(o, n) ==
    \/ TryProcess(o).ok
    \/ /\ n = c_max_retries
       /\ o.shape = "dict"
       /\ "process" \in DOMAIN o.value

\* Line 51 is reached: the try block raised nothing.
CreateReturns(o, n) == TryProcess(o).ok

\* f"Error: {str(e)}. Try again."
CreateTryAgainPrompt(e) == [template |-> "Error. Try again.", error |-> e]

\* create_bpmn, lines 41-73: the loop test, then one attempt or the raise
\* after the loop.
CreateAttempt ==
    /\ c_pc = "loop"
    /\ IF c_attempts < c_max_retries
       THEN \E o \in CreateOutcomes :
            /\ c_attempts' = c_attempts + 1
            /\ c_calls' = c_calls + 1
            /\ c_sent' = c_prompt
            /\ c_response' = o
            /\ IF o.raised # ""
               THEN /\ c_pc' = "failed"
                    /\ c_error' = o.raised
                    /\ UNCHANGED <<c_prompt, c_result>>
               ELSE IF CreateReturns(o, c_attempts')
               THEN /\ c_pc' = "returned"
                    /\ c_result' = o.value.process
                    /\ UNCHANGED <<c_prompt, c_error>>
               ELSE IF o.shape = "str"
               THEN \* response.get in the except block: AttributeError
                    /\ c_pc' = "failed"
                    /\ c_error' = "AttributeError"
                    /\ UNCHANGED <<c_prompt, c_result>>
               ELSE /\ c_prompt' = CreateTryAgainPrompt(TryProcess(o))
                    /\ UNCHANGED <<c_pc, c_result, c_error>>
       ELSE /\ c_pc' = "failed"
            /\ c_error' = MaxRetriesCreate
            /\ UNCHANGED <<c_attempts, c_prompt, c_response, c_result,
                           c_calls, c_sent>>
    /\ UNCHANGED <<c_max_retries, validator_vars, proposal_vars, editor_vars>>

(***************************************************************************)
(* Specifications.  Each runs one component; the variables of the others   *)
(* stay as they are.                                                       *)
(***************************************************************************)

ValidatorIdle == v_process = <<>> /\ v_result = Pending
ProposalIdle ==
    p_response = StopOnly /\ p_is_first_edit = TRUE /\ p_result = NotValidated
EditorIdle == EditorInit
CreateIdle == CreateInit /\ c_max_retries = 0

\* The Edit Orchestrator: one run of BpmnEditorService.edit_bpmn.
Init == EditorInit /\ ValidatorIdle /\ ProposalIdle /\ CreateIdle

Next ==
    \/ InitialCall
    \/ InitialValidate
    \/ InitialReprompt
    \/ ApplyEdit
    \/ ApplyReprompt
    \/ IntermediateCall
    \/ IntermediateValidate

Spec == Init /\ [][Next]_vars

\* The run is sequential and every facade call resolves: a step that can be
\* taken is taken.
FairSpec == Spec /\ WF_vars(Next)

\* The Process Validator on one tree.
ValidatorSpecInit == ValidatorInit /\ ProposalIdle /\ EditorIdle /\ CreateIdle

ValidatorSpecNext == ValidateProcess

ValidatorSpec == ValidatorSpecInit /\ [][ValidatorSpecNext]_vars

\* The Edit Proposal Validator on one response.
ProposalSpecInit == ProposalInit /\ ValidatorIdle /\ EditorIdle /\ CreateIdle

ProposalSpecNext == ValidateProposal

ProposalSpec == ProposalSpecInit /\ [][ProposalSpecNext]_vars

\* The Creation Orchestrator: one run of create_bpmn.
CreateSpecInit == CreateInit /\ ValidatorIdle /\ ProposalIdle /\ EditorIdle

CreateSpecNext == CreateAttempt

CreateSpec == CreateSpecInit /\ [][CreateSpecNext]_vars

\* Either orchestrator: one run of edit_bpmn or one run of create_bpmn.  The
\* two services share no state; once one of them has taken a step the other
\* is not called.
OrchestratorsInit == EditorInit /\ CreateInit /\ ValidatorIdle /\ ProposalIdle

CreateNotCalled == c_pc = "loop" /\ c_attempts = 0

EditNotCalled == pc = "start"

EditStep ==
    /\ CreateNotCalled
    /\ \/ InitialCall
       \/ InitialValidate
       \/ InitialReprompt
       \/ ApplyEdit
       \/ ApplyReprompt
       \/ IntermediateCall
       \/ IntermediateValidate

CreateStep == EditNotCalled /\ CreateAttempt

OrchestratorsNext == EditStep \/ CreateStep

OrchestratorsSpec == OrchestratorsInit /\ [][OrchestratorsNext]_vars

(***************************************************************************)
(* Part 5.  Properties                                                     *)
(***************************************************************************)

Terminal == {"stopped", "failed"}

\* The steps a retry loop has left: a loop of max_retries attempts, two
\* steps each, standing at its first step (try) or its second.
LoopSteps(second) == 2 * (max_retries - attempts) + (IF second THEN 1 ELSE 0)

\* The steps the rounds after the one under way can take: each a proposal
\* loop and an apply loop.
LaterRounds == (max_num_of_iterations - iteration) * 4 * max_retries

\* An upper bound of the steps the run has left.
StepsLeft ==
    CASE pc \in Terminal -> 0
      [] pc = "start" -> 4 * max_retries + LaterRounds + 2
      [] pc = "ip_validate" -> LoopSteps(FALSE) + 2 * max_retries + LaterRounds + 1
      [] pc = "ip_reprompt" -> LoopSteps(TRUE) + 2 * max_retries + LaterRounds + 1
      [] pc = "im_call" -> LoopSteps(FALSE) + 2 * max_retries + LaterRounds + 1
      [] pc = "im_validate" -> LoopSteps(TRUE) + 2 * max_retries + LaterRounds + 1
      [] pc = "ap_try" -> LoopSteps(FALSE) + LaterRounds + 1
      [] pc = "ap_reprompt" -> LoopSteps(TRUE) + LaterRounds + 1

\* C1: whatever the facade answers, a run of edit_bpmn reaches a terminal
\* outcome, it returns a tree or raises: every step uses up one of a finite
\* number of steps left, and the run ends.  (Under FairSpec.)
C1_Terminates ==
    /\ [](StepsLeft >= 0)
    /\ [][StepsLeft' < StepsLeft]_vars
    /\ <>(pc \in Terminal)

\* A run that used every attempt of every layer and then ended.
C1_Witness == pc = "failed" /\ error = MaxIterations /\ calls = 48

\* C2: when every facade call returns an ungrammatical proposal, the run
\* ends raising "Max number of retries reached." after exactly 3 validations
\* in _get_initial_edit_proposal; no edit function was called and the tree
\* is the one the service was given.
C2_AllInvalidFailsAfterThree ==
    (only_invalid /\ pc \in Terminal) =>
        /\ pc = "failed"
        /\ error = MaxRetriesProposal
        /\ ip_validations = 3
        /\ iteration = 0
        /\ round_applies = 0
        /\ updated_process = OriginalProcess
        /\ last_applied = OriginalProcess

\* The same without the replies that hold a stop key: three validations.
AllInvalidNoStop ==
    (only_invalid /\ pc \in Terminal /\ error # "KeyError") =>
        /\ pc = "failed"
        /\ error = MaxRetriesProposal
        /\ ip_validations = 3
        /\ round_applies = 0
        /\ last_applied = OriginalProcess

\* C3: when the initial proposal and every re-prompted one is a well-formed
\* call without stop and every edit function call raises ProcessException,
\* the run ends raising "Max number of retries reached. Process not fully
\* edited." after exactly 3 _update_process calls in the initial round; the
\* intermediate loop is not entered.
C3_AllStructuralFailsAfterThree ==
    (only_structural /\ pc \in Terminal) =>
        /\ pc = "failed"
        /\ error = MaxRetriesApply
        /\ round_applies = 3
        /\ iteration = 0
        /\ updated_process = OriginalProcess

C3_Witness == only_structural /\ pc = "failed" /\ round_applies = 3

IsStopOnly(r) == "stop" \in DOMAIN r /\ DOMAIN r \cap {"function", "arguments"} = {}

\* C4: a stop-only proposal validated as the initial proposal raises the
\* ValueError the retry loop catches, so the run re-prompts and one attempt
\* is used; validated in an intermediate round it is accepted and ends the
\* run.
C4_StopOnlyRejectedFirst ==
    [][/\ (pc = "ip_validate" /\ IsStopOnly(response)) =>
            (pc' = "ip_reprompt" /\ attempts' = attempts + 1)
       /\ (pc = "im_validate" /\ IsStopOnly(response)) => pc' = "stopped"]_vars

\* C5: the intermediate loop runs at most 7 rounds; a run returns only on a
\* stop accepted at a round's proposal stage, and returns the current tree,
\* the result of the last successful edit; once round 7 has a proposal that
\* is not stop, the run can only end raising, also when the edit applies.
C5_SevenRounds ==
    /\ [](/\ iteration \in 0..max_num_of_iterations
          /\ pc = "stopped" =>
                /\ iteration \in 1..max_num_of_iterations
                /\ "stop" \in DOMAIN response
                /\ result = updated_process
                /\ result = last_applied
          /\ (pc = "failed" /\ error = MaxIterations) =>
                iteration = max_num_of_iterations)
    /\ [][(iteration = max_num_of_iterations
           /\ pc \in {"ap_try", "ap_reprompt"}) =>
             pc' \in {"ap_try", "ap_reprompt", "failed"}]_vars

\* Seven rounds, every edit applied, and the run raised.
C5_Witness ==
    /\ pc = "failed"
    /\ error = MaxIterations
    /\ Len(updated_process) = max_num_of_iterations + 1

\* The operation grammar: the exact key sets of each verb.
AllowedKeySets(verb) ==
    CASE verb = "delete_element" -> {{"element_id"}}
      [] verb = "redirect_branch" -> {{"branch_condition", "next_id"}}
      [] verb = "add_element" ->
            {{"element", "before_id"}, {"element", "after_id"}}
      [] verb = "move_element" ->
            {{"element_id", "before_id"}, {"element_id", "after_id"}}
      [] verb = "update_element" -> {{"new_element"}}
      [] OTHER -> {}

InGrammar(r) == r.arguments \in AllowedKeySets(r.function)

C7_FacadeFailureIsRetried ==
    ~(/\ pc = "failed"
      /\ error \in {FacadeValueError, FacadeException}
      /\ attempts < max_retries)

\* C8: a run that raises, on whatever replies, raises one of the three
\* budget errors.
C8_OnlyBudgetFailures ==
    (pc = "failed" /\ error \notin {FacadeValueError, FacadeException}) =>
        error \in {MaxRetriesProposal, MaxRetriesApply, MaxIterations}

\* The elements of a tree in pre-order: an element, then what its branches
\* hold, then its next sibling.
RECURSIVE PreOrder(_)
RECURSIVE PreOrderBranches(_)

PreOrderBranches(branches) ==
    IF branches = <<>>
    THEN <<>>
    ELSE LET b == Head(branches)
             inner == IF "items" \in DOMAIN b THEN PreOrder(b.items)
                      ELSE IF "path" \in DOMAIN b THEN PreOrder(b.path)
                      ELSE <<>>
         IN inner \o PreOrderBranches(Tail(branches))

PreOrder(process) ==
    IF process = <<>>
    THEN <<>>
    ELSE LET e == Head(process)
             below == IF "branches" \in DOMAIN e /\ e.branches.list
                      THEN PreOrderBranches(e.branches.items)
                      ELSE <<>>
         IN <<e>> \o below \o PreOrder(Tail(process))

\* The per-element rules.
ElementOK(e) ==
    /\ "id" \in DOMAIN e
    /\ "type" \in DOMAIN e
    /\ e.type \in supported_elements
    /\ e.type \in TaskTypes => "label" \in DOMAIN e
    /\ e.type = "exclusiveGateway" =>
          /\ "label" \in DOMAIN e
          /\ "branches" \in DOMAIN e
          /\ e.branches.list
          /\ \A i \in 1..Len(e.branches.items) :
                {"condition", "path"} \subseteq DOMAIN e.branches.items[i]
    /\ e.type = "parallelGateway" =>
          "branches" \in DOMAIN e /\ e.branches.list

FirstInvalid(process) ==
    FirstIndex(PreOrder(process), LAMBDA e : ~ElementOK(e))

\* C9: _validate_bpmn accepts a tree if and only if every element at every
\* depth satisfies the per-element rules, and the exception it raises is the
\* one of the first invalid element in pre-order.
C9_AcceptsIffAllElementsValid ==
    v_result # Pending =>
        LET first == FirstInvalid(v_process)
        IN /\ v_result.ok <=> first = 0
           /\ first # 0 =>
                v_result = validate_element(PreOrder(v_process)[first])

\* A tree whose only invalid element sits three branches deep is refused
\* with that element's error.
C9_Witness ==
    /\ v_process =
        <<OkTaskA,
          XGateway(<<XBranch(
            <<OkTaskA,
              PGateway(<<PBranch(<<OkTaskB>>), PBranch(
                <<OkTaskA,
                  XGateway(<<XBranch(
                    <<[id |-> "C", type |-> "serviceTask"]>>)>>)>>)>>)>>)>>)>>
    /\ v_result = Raise("Task element is missing a label",
                        [id |-> "C", type |-> "serviceTask"])

\* C10: create_bpmn makes at most max_retries facade calls; the tree it
\* returns is the 'process' of the last reply and every element of it is
\* valid; it raises "Max number of retries reached..." only after
\* max_retries calls, and with max_retries attempts used it raises.
C10_CreateBounded ==
    /\ [](/\ c_calls <= c_max_retries
          /\ c_pc = "returned" =>
                /\ c_response.shape = "dict"
                /\ "process" \in DOMAIN c_response.value
                /\ c_result = c_response.value.process
                /\ FirstInvalid(c_result) = 0
          /\ (c_pc = "failed" /\ c_error = MaxRetriesCreate) =>
                c_calls = c_max_retries)
    /\ [][(c_pc = "loop" /\ c_attempts = c_max_retries) =>
             (c_pc' = "failed" /\ c_error' = MaxRetriesCreate)]_vars

\* Returned on the third attempt, after two replies that were refused.
C10_Witness ==
    /\ c_pc = "returned"
    /\ c_calls = 3
    /\ c_result = NestedValid
    /\ c_prompt.template = "Error. Try again."

(***************************************************************************)
(* The data-model invariants of a tree.                                    *)
(***************************************************************************)

UniqueIds(process) ==
    LET es == PreOrder(process)
    IN \A i, j \in 1..Len(es) :
          (i # j /\ "id" \in DOMAIN es[i] /\ "id" \in DOMAIN es[j]) =>
              es[i].id # es[j].id

DataModelInvariants(process) ==
    LET es == PreOrder(process)
    IN /\ UniqueIds(process)
       /\ \A i \in 1..Len(es) :
            /\ "type" \in DOMAIN es[i] /\ es[i].type \in supported_elements
            /\ es[i].type \in TaskTypes =>
                  ("label" \in DOMAIN es[i] /\ es[i].label # "")
            /\ es[i].type \in {"exclusiveGateway", "parallelGateway"} =>
                  ("branches" \in DOMAIN es[i] /\ es[i].branches.list)

\* C11 as stated: every tree _validate_bpmn accepts satisfies the data-model
\* invariants: ids unique across the tree, every type recognised, every
\* task-like element with a non-empty label, every gateway with a list of
\* branches.
C11_Original ==
    v_result = NoError => DataModelInvariants(v_process)

\* C11: every tree _validate_bpmn accepts has, at every depth, a recognised
\* type on every element, a label on every task-like element and a list of
\* branches on every gateway; it does not establish that ids are unique or
\* that labels are non-empty.
C11_AcceptedTreesChecked ==
    v_result = NoError =>
        LET es == PreOrder(v_process)
        IN \A i \in 1..Len(es) :
            /\ "id" \in DOMAIN es[i]
            /\ "type" \in DOMAIN es[i] /\ es[i].type \in supported_elements
            /\ es[i].type \in TaskTypes => "label" \in DOMAIN es[i]
            /\ es[i].type \in {"exclusiveGateway", "parallelGateway"} =>
                  ("branches" \in DOMAIN es[i] /\ es[i].branches.list)

\* An accepted tree that holds the id "A" twice, one of them in a branch.
C11_Witness ==
    /\ v_process = <<OkTaskA, XGateway(<<XBranch(<<OkTaskA>>)>>)>>
    /\ v_result = NoError

(***************************************************************************)
(* The Edit Orchestrator, continued.                                       *)
(***************************************************************************)

\* _update_process reaches line 104 with the proposal: an edit function is
\* called.
Dispatched(r) ==
    /\ "function" \in DOMAIN r
    /\ "arguments" \in DOMAIN r
    /\ r.function \in Verbs

\* C12: a proposal that is dispatched to an edit function was accepted by
\* _validate_llm_response before, the re-prompted proposals of
\* _attempt_process_update_with_retries included.
C12_DispatchedWasValidated ==
    (pc = "ap_try" /\ Dispatched(response)) => validated

\* The step under way is the re-prompt of line 76 and its reply holds 'stop'.
StopMidRetry ==
    /\ pc = "ap_reprompt"
    /\ error' \notin {FacadeValueError, FacadeException}
    /\ "stop" \in DOMAIN response'

\* C13: a stop in reply to the re-prompt after a structural error ends the
\* round only: the tree stays the one the round began with, nothing is
\* returned, the round is counted, and the run goes on to the prompt of the
\* next round (from the initial round, into the loop); after round 7 the
\* loop is exhausted and the run raises.
C13_StopMidRetryEndsRound ==
    [][StopMidRetry =>
        /\ updated_process' = updated_process
        /\ updated_process' = last_applied
        /\ result' = result
        /\ pc' # "stopped"
        /\ IF iteration < max_num_of_iterations
           THEN pc' = "im_call" /\ iteration' = iteration + 1 /\ attempts' = 0
           ELSE pc' = "failed" /\ error' = MaxIterations]_vars

\* The initial round ended by a stop-only reply to the re-prompt; round 1 is
\* about to ask for its proposal.
C13_Witness ==
    /\ pc = "im_call"
    /\ iteration = 1
    /\ attempts = 0
    /\ response = StopOnly
    /\ updated_process = OriginalProcess

\* C14: a failed apply leaves the current tree as it was: every retry of a
\* round is applied to the tree the round began with; the current tree
\* changes only in a step in which an edit function returned, and becomes
\* what the function returned; when the apply budget is exhausted the run
\* raises, returns nothing, and the tree is the last one an edit function
\* returned (or the original).
C14_FailedApplyKeepsTree ==
    /\ [](/\ updated_process = last_applied
          /\ (pc = "failed" /\ error = MaxRetriesApply) =>
                (result = <<>> /\ round_applies = max_retries))
    /\ [][/\ (pc = "ap_try" /\ pc' = "ap_reprompt") =>
                updated_process' = updated_process
          /\ updated_process' # updated_process =>
                /\ pc = "ap_try"
                /\ \E applicable \in BOOLEAN :
                      LET r == update_process(updated_process, response,
                                              applicable)
                      IN r.kind = "ok" /\ updated_process' = r.process]_vars

\* Three applies failed in round 2, after two edits that were applied; the
\* tree is the one of the two edits.
C14_Witness ==
    /\ pc = "failed"
    /\ error = MaxRetriesApply
    /\ iteration = 2
    /\ Len(updated_process) = 2

\* C15: the first prompt of every intermediate round is the template of the
\* intermediate step filled with the current tree: the tree the last
\* successful edit returned, or the original one when none succeeded.
C15_FirstPromptHasCurrentTree ==
    [][(pc = "im_call" /\ attempts = 0) =>
          /\ prompt'.template = "edit_bpmn_intermediate_step.txt"
          /\ prompt'.process = last_applied
          /\ Len(last_applied) = 0 => prompt'.process = OriginalProcess]_vars

\* The first prompt of round 3 went out with the tree of the two edits
\* applied so far (the edit of round 1 was given up on a stop).
C15_Witness ==
    /\ pc = "im_validate"
    /\ iteration = 3
    /\ attempts = 1
    /\ prompt.template = "edit_bpmn_intermediate_step.txt"
    /\ Len(prompt.process) = 2
    /\ prompt.process = last_applied

\* The exception a layer has just caught, at the point where the layer is
\* about to call the facade again.
CaughtInitial == validate_llm_response(response, TRUE)
CaughtApply == update_process(updated_process, response, FALSE)

\* C16: a facade call that follows a recoverable error carries the text of
\* the error the layer has just caught: the ValueError of the validation
\* before it in the two proposal layers, the ProcessException of the apply
\* before it (with the change request) in the apply layer, the exception of
\* the attempt before it in create_bpmn.
C16_RepromptCarriesLastError ==
    /\ [](/\ pc = "ip_reprompt" =>
                (CaughtInitial.kind = "ValueError"
                 /\ error_message = CaughtInitial.msg)
          /\ pc = "ap_reprompt" =>
                (CaughtApply.kind = "ProcessException"
                 /\ error_message = CaughtApply.msg)
          /\ (c_pc = "loop" /\ c_attempts >= 1) =>
                (/\ ~TryProcess(c_response).ok
                 /\ c_prompt.template = "Error. Try again."
                 /\ c_prompt.error = TryProcess(c_response)))
    /\ [][/\ pc = "ip_reprompt" =>
                (prompt'.template = "Editing error"
                 /\ prompt'.error = error_message)
          /\ pc = "ap_reprompt" =>
                (/\ prompt'.template = "Error. Try again. Change request"
                 /\ prompt'.error = error_message
                 /\ prompt'.change_request)
          /\ (pc' = "im_call" /\ attempts' >= 1) =>
                \/ /\ pc = "im_validate"
                   /\ validate_llm_response(response, FALSE).kind = "ValueError"
                   /\ error_message' =
                        validate_llm_response(response, FALSE).msg
                \/ /\ pc = "im_call"
                   /\ error_message' = FacadeValueError
          /\ (pc = "im_call" /\ attempts >= 1) =>
                (prompt'.template = "Editing error"
                 /\ prompt'.error = error_message)
          /\ c_calls' # c_calls => c_sent' = c_prompt]_vars

\* The re-prompt after a structural error went out with the error and the
\* change request.
C16_Witness ==
    /\ pc = "ap_try"
    /\ attempts = 1
    /\ prompt.template = "Error. Try again. Change request"
    /\ prompt.error = "structural error"
    /\ prompt.change_request

\* The run is in _get_initial_edit_proposal, or has just left it by its
\* raise.
InInitialLayer ==
    \/ pc \in {"ip_validate", "ip_reprompt"}
    \/ pc = "failed" /\ iteration = 0 /\ error = MaxRetriesProposal

\* C17: the initial-proposal layer makes at most 3 facade calls, and when it
\* gives up every reply it obtained has been validated.
C17_InitialLayerThreeCalls ==
    /\ InInitialLayer => calls <= max_retries
    /\ (InInitialLayer /\ pc = "failed") => calls = ip_validations

\* What the layer does: one call more than validations.
InitialLayerFourCalls ==
    /\ InInitialLayer => calls <= max_retries + 1
    /\ (InInitialLayer /\ pc = "failed") =>
          (calls = max_retries + 1 /\ ip_validations = max_retries)

\* C18: a run of edit_bpmn makes at most 48 facade calls: 3 in the initial
\* proposal layer when the run goes on past it, 3 in the initial apply
\* layer, and 3 + 3 in each of the 7 rounds; some run makes 48.
C18_AtMost48Calls ==
    /\ calls <= 48
    /\ (pc \in {"ap_try", "ap_reprompt", "im_call", "im_validate", "stopped"}
        \/ (pc = "failed" /\ iteration > 0)) =>
          calls <= 2 * 3 * (iteration + 1)

\* 48 calls: every layer used its three calls, the last one the re-prompt of
\* the apply layer of round 7.
C18_Witness ==
    /\ calls = 48
    /\ iteration = max_num_of_iterations
    /\ error = MaxRetriesApply

\* C19: edit_bpmn returns only in the step in which a stop is accepted at
\* the proposal stage of a round k in 1..7; the tree returned holds at most
\* k edits (one of the initial round, one of each round before k), so at
\* most 7; once an edit is applied in round 7 the run raises.
C19_ReturnOnlyAfterStop ==
    /\ [](pc = "stopped" =>
            /\ iteration \in 1..max_num_of_iterations
            /\ "stop" \in DOMAIN response
            /\ validated
            /\ Len(result) <= iteration)
    /\ [][/\ pc' = "stopped" => pc \in {"im_validate", "stopped"}
          /\ (iteration = max_num_of_iterations
              /\ Len(updated_process') > Len(updated_process)) =>
                (pc' = "failed" /\ error' = MaxIterations)
          /\ pc = "failed" => pc' = "failed"]_vars

\* A stop accepted in round 7, with the seven edits of the rounds before it
\* applied.
C19_Witness ==
    /\ pc = "stopped"
    /\ iteration = max_num_of_iterations
    /\ Len(result) = max_num_of_iterations

(***************************************************************************)
(* The Edit Proposal Validator and the dispatch.                           *)
(***************************************************************************)

\* What the orchestrator does with a response the validator accepted: the
\* initial proposal is always handed to _update_process (line 33), an
\* intermediate one unless it holds 'stop' (lines 46-53).
OrchestratorDispatches(resp, is_first_edit) ==
    is_first_edit \/ "stop" \notin DOMAIN resp

\* The verbs for which the validator accepts some set of argument keys.
AcceptedVerbs ==
    {f \in VerbNames :
        \E a \in SUBSET ArgKeys :
            validate_llm_response([function |-> f, arguments |-> a], TRUE)
                = Returned}

\* What holds of the proposals whose 'arguments' is a dict.
MappingDispatchFindsHandler ==
    /\ AcceptedVerbs = Verbs
    /\ (p_result = Returned
        /\ IsMapping(p_response)
        /\ OrchestratorDispatches(p_response, p_is_first_edit)) =>
          /\ Dispatched(p_response)
          /\ AcceptsKeywords(p_response.function, p_response.arguments)
          /\ update_process(OriginalProcess, p_response, TRUE)
                = Updated(Append(OriginalProcess, p_response.function))
          /\ update_process(OriginalProcess, p_response, FALSE).kind
                = "ProcessException"

\* C20: the verbs the validator accepts are the keys of the dispatch table;
\* for a proposal the validator accepted and the orchestrator dispatches,
\* _update_process finds the edit function of that name and calls it with
\* the proposal's arguments, which are keywords the function takes: the call
\* returns the edited tree or raises the function's ProcessException,
\* nothing else.
C20_ValidatedDispatchFindsHandler ==
    /\ AcceptedVerbs = Verbs
    /\ (p_result = Returned
        /\ OrchestratorDispatches(p_response, p_is_first_edit)) =>
          /\ Dispatched(p_response)
          /\ AcceptsKeywords(p_response.function, p_response.arguments)
          /\ update_process(OriginalProcess, p_response, TRUE)
                = Updated(Append(OriginalProcess, p_response.function))
          /\ update_process(OriginalProcess, p_response, FALSE).kind
                = "ProcessException"

====
